---- MODULE Spec2Model ----
(***************************************************************************)
(* A model of geospyer's client, src/geospyer/geospy.py: the construction  *)
(* of a GeoSpy object and the pipeline of locate_with_gemini (throttle,    *)
(* image acquisition, inference POST, reply normalisation).                *)
(*                                                                         *)
(* Conventions.  A Python str is a sequence of one-character strings, so   *)
(* that parsing, prefix tests and splitting are computed, not assumed.     *)
(* A fixed message of the code is one element of such a sequence (it is    *)
(* never taken apart).  A JSON value is a pair <<kind, payload>>.  The     *)
(* outcome of a Python call is a record [exc, msg, val]: exc = "" when it  *)
(* returned val, else the class of the exception it raised.  Time is       *)
(* counted in ticks of half a second.                                      *)
(***************************************************************************)
EXTENDS Integers, Sequences, FiniteSets, TLC

VARIABLES
    ctor,               \* the arguments GeoSpy(...) was called with, and its outcome
    now,                \* time.time()
    last_request_time,  \* self.last_request_time
    pc,                 \* where the one caller of locate() is
    image_path,         \* the argument of the call in progress
    context_info,       \* its context_info argument
    location_guess,     \* its location_guess argument
    fs,                 \* what the file system holds at that path
    get,                \* the image GET: how it ended, headers received, bytes sent by the host
    content,            \* the download buffer of encode_image_to_base64
    request_body,       \* mime_type and data of the POST being made
    reply,              \* the last reply of the inference endpoint
    result,             \* the value the last call returned
    escaped,            \* the class of an exception that left locate(), or ""
    gets,               \* hosts an image GET was sent to, in order
    posts,              \* the times at which the inference POSTs were dispatched
    threads,            \* where each concurrent caller of locate() is in _rate_limit
    passes,             \* the passages of the throttle by these callers, in order
    calls               \* calls of locate() made so far

vars == <<ctor, now, last_request_time, pc, image_path, context_info, location_guess,
          fs, get, content,
          request_body, reply, result, escaped, gets, posts, threads, passes, calls>>

----------------------------------------------------------------------------
(* Bounds of the model. *)

\* The clock starts here (time.time() is far from 0) and calls start up to MaxTime.
StartTime == 3
MaxTime == 6
\* time.sleep() returns at most this many ticks late.
MaxOversleep == 1
\* Calls of locate() in one behaviour.
MaxCalls == 2
\* Threads that call locate() on one object at the same time.
MaxCallers == 2
\* The largest chunk iter_content delivers, and the most chunks of one body.
MaxChunk == 4
MaxChunks == 3
\* The most locations in a reply of the inference endpoint.
MaxLocations == 3

----------------------------------------------------------------------------
(* Python strings and exceptions. *)

Upper == <<"A","B","C","D","E","F","G","H","I","J","K","L","M",
           "N","O","P","Q","R","S","T","U","V","W","X","Y","Z">>
Lowercase == <<"a","b","c","d","e","f","g","h","i","j","k","l","m",
           "n","o","p","q","r","s","t","u","v","w","x","y","z">>
Digits == {"0","1","2","3","4","5","6","7","8","9"}

Range(s) == {s[i] : i \in DOMAIN s}

LowerChar(c) ==
    IF c \in Range(Upper)
    THEN Lowercase[CHOOSE i \in DOMAIN Upper : Upper[i] = c]
    ELSE c

\* str.lower()
lower(s) == [i \in DOMAIN s |-> LowerChar(s[i])]

\* str.startswith(prefix)
startswith(s, prefix) ==
    /\ Len(s) >= Len(prefix)
    /\ SubSeq(s, 1, Len(prefix)) = prefix

\* str.find(c) for one character, 1-based; 0 when absent
find(s, c) ==
    IF c \in Range(s) THEN CHOOSE i \in DOMAIN s : s[i] = c /\ \A j \in 1..(i-1) : s[j] # c
    ELSE 0

\* str.rfind(c), 1-based; 0 when absent
rfind(s, c) ==
    IF c \in Range(s) THEN CHOOSE i \in DOMAIN s : s[i] = c /\ \A j \in (i+1)..Len(s) : s[j] # c
    ELSE 0

\* s[i:] with i 1-based
From(s, i) == SubSeq(s, i, Len(s))

Ok(v) == [exc |-> "", msg |-> <<>>, val |-> v]
Raise(cls, msg) == [exc |-> cls, msg |-> msg, val |-> <<>>]

\* The direct base classes of the exception classes the code meets
\* (builtins, json and requests.exceptions).
Bases(cls) ==
    CASE cls = "FileNotFoundError" -> {"OSError"}
      [] cls = "PermissionError" -> {"OSError"}
      [] cls = "IsADirectoryError" -> {"OSError"}
      [] cls = "OSError" -> {"Exception"}
      [] cls = "ValueError" -> {"Exception"}
      [] cls = "TypeError" -> {"Exception"}
      [] cls = "KeyError" -> {"Exception"}
      [] cls = "IndexError" -> {"Exception"}
      [] cls = "AttributeError" -> {"Exception"}
      [] cls = "JSONDecodeError" -> {"ValueError"}
      [] cls = "RequestException" -> {"OSError"}
      [] cls = "HTTPError" -> {"RequestException"}
      [] cls = "ConnectionError" -> {"RequestException"}
      [] cls = "SSLError" -> {"ConnectionError"}
      [] cls = "Timeout" -> {"RequestException"}
      [] cls = "ConnectTimeout" -> {"ConnectionError", "Timeout"}
      [] cls = "ReadTimeout" -> {"Timeout"}
      [] cls = "RequestsJSONDecodeError" -> {"RequestException", "JSONDecodeError"}
      [] OTHER -> {}

RECURSIVE issubclass(_, _)
issubclass(cls, base) ==
    \/ cls = base
    \/ \E b \in Bases(cls) : issubclass(b, base)

----------------------------------------------------------------------------
(* Optional arguments: None or a str. *)

PyNone == [ty |-> "NoneType", s |-> <<>>]
PyStr(s) == [ty |-> "str", s |-> s]
PyInt == [ty |-> "int", s |-> <<>>]

\* Python truth of an argument: None and "" are false, a non-zero int is true.
Truthy(v) == IF v.ty = "str" THEN v.s # <<>> ELSE v.ty # "NoneType"

----------------------------------------------------------------------------
(* GeoSpy.__init__ *)

\* 10 * 1024 * 1024 in the source; the model counts in units that keep bodies short.
max_file_size == 3
\* 1.0 second, in ticks.
min_request_interval == 2

KeyChars == Range(Upper) \cup Range(Lowercase) \cup Digits \cup {"_", "-"}

\* re.match(r'^[A-Za-z0-9_-]+$', s): one or more characters of the class, then
\* "$", which matches at the end of s and also just before a final newline.
MatchKeyFormat(s) ==
    \E n \in 1..Len(s) :
        /\ \A i \in 1..n : s[i] \in KeyChars
        /\ \/ n = Len(s)
           \/ n = Len(s) - 1 /\ s[Len(s)] = "\n"

\* api_key or os.environ.get("GEMINI_API_KEY")
EffectiveKey(api_key, env) == IF Truthy(api_key) THEN api_key ELSE env

GeoSpy__init__(api_key, env) ==
    LET gemini_api_key == EffectiveKey(api_key, env) IN
    IF ~Truthy(gemini_api_key)
    THEN Raise("ValueError", <<"Gemini API key is required. Please provide it via the 'api_key' parameter or set the 'GEMINI_API_KEY' environment variable.">>)
    ELSE IF ~MatchKeyFormat(gemini_api_key.s)
    THEN Raise("ValueError", <<"Invalid API key format">>)
    ELSE Ok([gemini_api_key |-> gemini_api_key.s])

----------------------------------------------------------------------------
(* urllib.parse.urlparse, as far as scheme, netloc and path go. *)

SchemeChars == Range(Upper) \cup Range(Lowercase) \cup Digits \cup {"+", "-", "."}

\* The first index >= i of s holding one of cs; Len(s) + 1 when none.
RECURSIVE FirstOf(_, _, _)
FirstOf(s, cs, i) ==
    IF i > Len(s) THEN Len(s) + 1
    ELSE IF s[i] \in cs THEN i
    ELSE FirstOf(s, cs, i + 1)

urlparse(url) ==
    LET i == find(url, ":")
        hasScheme == /\ i > 1
                     /\ url[1] \in Range(Upper) \cup Range(Lowercase)
                     /\ \A j \in 1..(i-1) : url[j] \in SchemeChars
        scheme == IF hasScheme THEN lower(SubSeq(url, 1, i - 1)) ELSE <<>>
        rest == IF hasScheme THEN From(url, i + 1) ELSE url
        hasNetloc == startswith(rest, <<"/", "/">>)
        delim == FirstOf(rest, {"/", "?", "#"}, 3)
        netloc == IF hasNetloc THEN SubSeq(rest, 3, delim - 1) ELSE <<>>
        tail == IF hasNetloc THEN From(rest, delim) ELSE rest
        path == SubSeq(tail, 1, FirstOf(tail, {"?", "#"}, 1) - 1)
    IN  IF hasNetloc /\ (("[" \in Range(netloc)) # ("]" \in Range(netloc)))
        THEN Raise("ValueError", <<"Invalid IPv6 URL">>)
        ELSE Ok([scheme |-> scheme, netloc |-> netloc, path |-> path])

\* The host an HTTP client connects to for a URL (RFC 3986): what follows the
\* last "@" of the authority, up to the port, in lower case.
ConnectHost(url) ==
    LET netloc == urlparse(url).val.netloc
        at == rfind(netloc, "@")
        hostport == From(netloc, at + 1)
        colon == find(hostport, ":")
    IN  lower(IF colon = 0 THEN hostport ELSE SubSeq(hostport, 1, colon - 1))

S_http == <<"h","t","t","p">>
S_https == <<"h","t","t","p","s">>
S_http_prefix == <<"h","t","t","p",":","/","/">>
S_https_prefix == <<"h","t","t","p","s",":","/","/">>
S_localhost == <<"l","o","c","a","l","h","o","s","t">>
S_127_0_0_1 == <<"1","2","7",".","0",".","0",".","1">>
S_0_0_0_0 == <<"0",".","0",".","0",".","0">>

\* re.match(r'^(10\.|172\.(1[6-9]|2[0-9]|3[01])\.|192\.168\.)', domain)
MatchPrivateRange(domain) ==
    \/ startswith(domain, <<"1","0",".">>)
    \/ /\ startswith(domain, <<"1","7","2",".">>)
       /\ Len(domain) >= 7
       /\ \/ domain[5] = "1" /\ domain[6] \in {"6","7","8","9"}
          \/ domain[5] = "2" /\ domain[6] \in Digits
          \/ domain[5] = "3" /\ domain[6] \in {"0","1"}
       /\ domain[7] = "."
    \/ startswith(domain, <<"1","9","2",".","1","6","8",".">>)

\* netloc.split(':')[0].lower()
DomainOf(netloc) ==
    LET colon == find(netloc, ":")
    IN  lower(IF colon = 0 THEN netloc ELSE SubSeq(netloc, 1, colon - 1))

----------------------------------------------------------------------------
(* GeoSpy._validate_image_path *)

Cwd == <<"/", "w">>

\* os.path.abspath: a relative path is joined to the working directory and
\* repeated slashes collapse (the paths of the model hold no "." or ".." part).
RECURSIVE CollapseSlashes(_)
CollapseSlashes(p) ==
    IF Len(p) < 2 THEN p
    ELSE IF p[1] = "/" /\ p[2] = "/" THEN CollapseSlashes(Tail(p))
    ELSE <<p[1]>> \o CollapseSlashes(Tail(p))

abspath(p) ==
    CollapseSlashes(IF startswith(p, <<"/">>) THEN p ELSE Cwd \o <<"/">> \o p)

\* pathlib.Path(p).suffix
suffix(p) ==
    LET name == From(p, rfind(p, "/") + 1)
        dot == rfind(name, ".")
    IN  IF dot > 1 /\ dot < Len(name) THEN From(name, dot) ELSE <<>>

allowed_extensions ==
    { <<".","j","p","g">>, <<".","j","p","e","g">>, <<".","p","n","g">>,
      <<".","g","i","f">>, <<".","b","m","p">>, <<".","w","e","b","p">> }

\* The remote branch, lines 42-55.
ValidateUrl(url, parsed) ==
    IF parsed.netloc = <<>>
    THEN Raise("ValueError", <<"Invalid URL: missing domain">>)
    ELSE LET domain == DomainOf(parsed.netloc) IN
         IF domain \in {S_localhost, S_127_0_0_1, S_0_0_0_0}
         THEN Raise("ValueError", <<"Localhost URLs are not allowed">>)
         ELSE IF MatchPrivateRange(domain)
         THEN Raise("ValueError", <<"Private IP addresses are not allowed">>)
         ELSE Ok(url)

\* The local branch, lines 57-82.  f is what the file system holds at the path.
\* FileNotFoundError is an OSError, so the handler of line 81 turns it into a
\* ValueError that quotes it.
ValidateLocal(path, f) ==
    LET abs_path == abspath(path) IN
    IF ~f.exists
    THEN Raise("ValueError", <<"Invalid file path: ", "Image file not found: ">> \o abs_path)
    ELSE IF ~f.isfile
    THEN Raise("ValueError", <<"Path is not a file: ">> \o abs_path)
    ELSE IF lower(suffix(abs_path)) \notin allowed_extensions
    THEN Raise("ValueError", <<"Unsupported file type. Allowed: .jpg, .jpeg, .png, .gif, .bmp, .webp">>)
    ELSE IF f.size > max_file_size
    THEN Raise("ValueError", <<"File too large: ", ToString(f.size), " bytes (max: ", ToString(max_file_size), " bytes)">>)
    ELSE Ok(abs_path)

_validate_image_path(arg, f) ==
    IF ~Truthy(arg) \/ arg.ty # "str"
    THEN Raise("ValueError", <<"Image path must be a non-empty string">>)
    ELSE LET parsed_url == urlparse(arg.s) IN
         IF parsed_url.exc # "" THEN parsed_url
         ELSE IF parsed_url.val.scheme \in {S_http, S_https}
         THEN ValidateUrl(arg.s, parsed_url.val)
         ELSE ValidateLocal(arg.s, f)

\* validated_path.startswith(('http://', 'https://'))
IsUrl(path) == startswith(path, S_http_prefix) \/ startswith(path, S_https_prefix)

----------------------------------------------------------------------------
(* base64.b64encode(content).decode('utf-8') *)

B64Alphabet ==
    Upper \o Lowercase \o <<"0","1","2","3","4","5","6","7","8","9","+","/">>

RECURSIVE b64encode(_)
b64encode(bytes) ==
    IF Len(bytes) = 0 THEN <<>>
    ELSE IF Len(bytes) = 1 THEN
        LET n == bytes[1] * 16 IN
        <<B64Alphabet[(n \div 64) + 1], B64Alphabet[(n % 64) + 1], "=", "=">>
    ELSE IF Len(bytes) = 2 THEN
        LET n == (bytes[1] * 256 + bytes[2]) * 4 IN
        <<B64Alphabet[(n \div 4096) + 1], B64Alphabet[((n \div 64) % 64) + 1],
          B64Alphabet[(n % 64) + 1], "=">>
    ELSE
        LET n == bytes[1] * 65536 + bytes[2] * 256 + bytes[3] IN
        <<B64Alphabet[(n \div 262144) + 1], B64Alphabet[((n \div 4096) % 64) + 1],
          B64Alphabet[((n \div 64) % 64) + 1], B64Alphabet[(n % 64) + 1]>>
        \o b64encode(From(bytes, 4))

\* The bytes a host or a file delivers: n copies of one byte value.
Bytes(n, b) == [i \in 1..n |-> b]

----------------------------------------------------------------------------
(* GeoSpy._detect_mime_type: mimetypes.guess_type on the URL's path or on the
   path itself; image/jpeg when the extension is unknown. *)

guess_type(path) ==
    LET ext == lower(suffix(path)) IN
    CASE ext \in {<<".","j","p","g">>, <<".","j","p","e","g">>} -> "image/jpeg"
      [] ext = <<".","p","n","g">> -> "image/png"
      [] ext = <<".","g","i","f">> -> "image/gif"
      [] ext = <<".","b","m","p">> -> "image/bmp"
      [] ext = <<".","w","e","b","p">> -> "image/webp"
      [] ext = <<".","t","x","t">> -> "text/plain"
      [] OTHER -> ""

_detect_mime_type(path) ==
    LET mime_type == IF IsUrl(path) THEN guess_type(urlparse(path).val.path)
                     ELSE guess_type(path)
    IN  IF mime_type # "" THEN mime_type ELSE "image/jpeg"

----------------------------------------------------------------------------
(* GeoSpy.encode_image_to_base64, the local branch (lines 166-176). *)

\* str(e) of the OSError that open() raised.
OSErrorText(cls, path) ==
    CASE cls = "FileNotFoundError" -> <<"[Errno 2] ", "No such file or directory", ": '">> \o path \o <<"'">>
      [] cls = "IsADirectoryError" -> <<"[Errno 21] ", "Is a directory", ": '">> \o path \o <<"'">>
      [] OTHER -> <<"[Errno 5] ", "Input/output error", ": '">> \o path \o <<"'">>

\* What open(path, "rb") does: a path that does not exist or is a directory
\* cannot be opened; f.open is what happens to a regular file.
OpenOutcome(f) ==
    IF ~f.exists THEN "FileNotFoundError"
    ELSE IF ~f.isfile THEN "IsADirectoryError"
    ELSE f.open

ReadLocal(validated_path, f) ==
    LET opened == OpenOutcome(f) IN
    IF opened = "PermissionError"
    THEN Raise("ValueError", <<"Permission denied", " when accessing image file: ">> \o validated_path)
    ELSE IF opened # "ok"
    THEN Raise("ValueError", <<"Failed to read image file: ">> \o OSErrorText(opened, validated_path))
    ELSE IF f.read_size > max_file_size
    THEN Raise("ValueError", <<"File too large: ", ToString(f.read_size), " bytes (max: ", ToString(max_file_size), " bytes)">>)
    ELSE Ok(b64encode(Bytes(f.read_size, f.byte)))

----------------------------------------------------------------------------
(* JSON.  A text is a sequence of lexemes: punctuation, the quote, white
   space, the grave accent, and words and numbers taken whole.  A value is
   <<kind, payload>>; an object's payload is a function from keys (the
   contents of string literals) to values. *)

Str(s) == <<"str", s>>
Num(n) == <<"num", n>>
Arr(items) == <<"arr", items>>
Obj(f) == <<"obj", f>>
Lit(w) == <<w, <<>>>>

\* A dict literal of the code, from a sequence of <<key, value>> pairs.
Dict(pairs) ==
    Obj([k \in {<<pairs[i][1]>> : i \in DOMAIN pairs} |->
            pairs[CHOOSE i \in DOMAIN pairs : <<pairs[i][1]>> = k][2]])

Whitespace == {" ", "\n", "\t"}
NumberLexemes == {"0", "1", "48.85", "2.35", "40.71", "-74.0", "51.5", "-0.12"}
LiteralLexemes == {"null", "true", "false"}

RECURSIVE SkipWs(_)
SkipWs(s) == IF s # <<>> /\ s[1] \in Whitespace THEN SkipWs(Tail(s)) ELSE s

Parsed(v, rest) == [ok |-> TRUE, val |-> v, rest |-> rest]
NoParse == [ok |-> FALSE, val |-> <<>>, rest |-> <<>>]

\* A string literal at the head of s: up to the next quote; a raw line break
\* inside it is an error (json's strict mode).
ParseString(s) ==
    LET close == find(Tail(s), "\"")
        inner == SubSeq(Tail(s), 1, close - 1)
    IN  IF close = 0 \/ "\n" \in Range(inner) THEN NoParse
        ELSE Parsed(Str(inner), From(Tail(s), close + 1))

RECURSIVE ParseValue(_), ParseMembers(_, _), ParseItems(_, _)
ParseValue(s0) ==
    LET s == SkipWs(s0) IN
    IF s = <<>> THEN NoParse
    ELSE IF s[1] = "{" THEN
        LET r == SkipWs(Tail(s)) IN
        IF r # <<>> /\ r[1] = "}" THEN Parsed(Obj(<<>>), Tail(r))
        ELSE ParseMembers(r, <<>>)
    ELSE IF s[1] = "[" THEN
        LET r == SkipWs(Tail(s)) IN
        IF r # <<>> /\ r[1] = "]" THEN Parsed(Arr(<<>>), Tail(r))
        ELSE ParseItems(r, <<>>)
    ELSE IF s[1] = "\"" THEN ParseString(s)
    ELSE IF s[1] \in NumberLexemes THEN Parsed(Num(s[1]), Tail(s))
    ELSE IF s[1] \in LiteralLexemes THEN Parsed(Lit(s[1]), Tail(s))
    ELSE NoParse

\* "key": value pairs up to the closing brace; a repeated key keeps the last value.
ParseMembers(s0, acc) ==
    LET s == SkipWs(s0) IN
    IF s = <<>> \/ s[1] # "\"" THEN NoParse
    ELSE LET key == ParseString(s)
             c == SkipWs(key.rest)
         IN  IF ~key.ok \/ c = <<>> \/ c[1] # ":" THEN NoParse
             ELSE LET v == ParseValue(Tail(c))
                      r == SkipWs(v.rest)
                      k == key.val[2]
                      acc2 == [x \in (DOMAIN acc) \cup {k} |-> IF x = k THEN v.val ELSE acc[x]]
                  IN  IF ~v.ok \/ r = <<>> THEN NoParse
                      ELSE IF r[1] = "," THEN ParseMembers(Tail(r), acc2)
                      ELSE IF r[1] = "}" THEN Parsed(Obj(acc2), Tail(r))
                      ELSE NoParse

ParseItems(s0, acc) ==
    LET v == ParseValue(s0)
        r == SkipWs(v.rest)
    IN  IF ~v.ok \/ r = <<>> THEN NoParse
        ELSE IF r[1] = "," THEN ParseItems(Tail(r), Append(acc, v.val))
        ELSE IF r[1] = "]" THEN Parsed(Arr(Append(acc, v.val)), Tail(r))
        ELSE NoParse

\* json.loads: one value, then nothing but white space.
json_loads(text) ==
    LET p == ParseValue(text) IN
    IF p.ok /\ SkipWs(p.rest) = <<>> THEN Ok(p.val)
    ELSE Raise("JSONDecodeError", <<"Expecting value">>)

----------------------------------------------------------------------------
(* The reply normaliser, lines 367-393 of locate_with_gemini. *)

\* The grave accent (U+0060), the character of a code fence.
Grave == "GRAVE"
FenceJson == <<Grave, Grave, Grave, "json">>
Fence == <<Grave, Grave, Grave>>

\* The places where old occurs in s.
Occurrences(s, old) ==
    { i \in 1..(Len(s) - Len(old) + 1) : SubSeq(s, i, i + Len(old) - 1) = old }

\* The occurrences str.replace takes: from left to right, none overlapping
\* the one taken before it.
RECURSIVE Taken(_, _, _)
Taken(occ, width, from) ==
    LET next == { i \in occ : i >= from } IN
    IF next = {} THEN {}
    ELSE LET first == CHOOSE i \in next : \A j \in next : i <= j
         IN  {first} \cup Taken(occ, width, first + width)

\* str.replace(old, ""): s without the occurrences taken.
replace(s, old) ==
    LET taken == Taken(Occurrences(s, old), Len(old), 1)
        indexed == [i \in DOMAIN s |-> <<i, s[i]>>]
        Kept(e) == \A t \in taken : e[1] < t \/ e[1] >= t + Len(old)
        kept == SelectSeq(indexed, Kept)
    IN  [i \in DOMAIN kept |-> kept[i][2]]

RECURSIVE rstrip(_)
rstrip(s) ==
    IF s # <<>> /\ s[Len(s)] \in Whitespace THEN rstrip(SubSeq(s, 1, Len(s) - 1)) ELSE s

\* str.strip()
strip(s) == rstrip(SkipWs(s))

\* Only the opening marker removed.
Mutant_StripFences(raw_text) == strip(replace(raw_text, FenceJson))

\* raw_text.replace(FenceJson, "").replace(Fence, "").strip()
StripFences(raw_text) == strip(replace(replace(raw_text, FenceJson), Fence))

\* key in v, for a parsed value v: a key of a dict, an item of a list, a part
\* of a str; a TypeError on a number, true, false or null.
Contains(key, v) ==
    CASE v[1] = "obj" -> Ok(<<key>> \in DOMAIN v[2])
      [] v[1] = "arr" -> Ok(\E i \in DOMAIN v[2] : v[2][i] = Str(<<key>>))
      [] v[1] = "str" -> Ok(key \in Range(v[2]))
      [] OTHER -> Raise("TypeError", <<"argument is not iterable">>)

\* d.get(key, default) on a dict
Get(f, key, default) == IF <<key>> \in DOMAIN f THEN f[<<key>>] ELSE default

\* The wrapped reply with no default for the coordinates.
Mutant_WrapSingleLocation(f) ==
    Dict(<<
        <<"interpretation", Get(f, "interpretation", Str(<<>>))>>,
        <<"locations", Arr(<< Dict(<<
            <<"country", Get(f, "country", Str(<<>>))>>,
            <<"state", Get(f, "state", Str(<<>>))>>,
            <<"city", Get(f, "city", Str(<<>>))>>,
            <<"confidence", Get(f, "confidence", Str(<<"Medium">>))>>,
            <<"coordinates", Get(f, "coordinates", Lit("null"))>>,
            <<"explanation", Get(f, "explanation", Str(<<>>))>>
        >>) >>)>>
    >>)

\* Lines 375-385: the single-location reply, wrapped.
WrapSingleLocation(f) ==
    Dict(<<
        <<"interpretation", Get(f, "interpretation", Str(<<>>))>>,
        <<"locations", Arr(<< Dict(<<
            <<"country", Get(f, "country", Str(<<>>))>>,
            <<"state", Get(f, "state", Str(<<>>))>>,
            <<"city", Get(f, "city", Str(<<>>))>>,
            <<"confidence", Get(f, "confidence", Str(<<"Medium">>))>>,
            <<"coordinates", Get(f, "coordinates",
                Dict(<< <<"latitude", Num("0")>>, <<"longitude", Num("0")>> >>))>>,
            <<"explanation", Get(f, "explanation", Str(<<>>))>>
        >>) >>)>>
    >>)

ParseFailure ==
    Dict(<< <<"error", Str(<<"Failed to parse API response">>)>>,
            <<"details", Str(<<"Invalid JSON response from API">>)>> >>)

\* Lines 374-387, on the value json.loads returned.
Normalize(parsed_result) ==
    LET hasCity == Contains("city", parsed_result)
        hasLocations == Contains("locations", parsed_result)
    IN  IF hasCity.exc # "" THEN hasCity
        ELSE IF hasCity.val /\ ~hasLocations.val
        THEN IF parsed_result[1] = "obj" THEN Ok(WrapSingleLocation(parsed_result[2]))
             ELSE Raise("AttributeError", <<"object has no attribute get">>)
        ELSE Ok(parsed_result)

\* The parse failure returned with the reply text in it.
Mutant_NormalizeReply(raw_text) ==
    LET parsed == json_loads(StripFences(raw_text)) IN
    IF parsed.exc # ""
    THEN Ok(Dict(<< <<"error", Str(<<"Failed to parse API response">>)>>,
                    <<"raw_response", Str(raw_text)>> >>))
    ELSE Normalize(parsed.val)

\* Lines 367-393: the value returned for the reply text, or the exception that
\* leaves the inner try.
NormalizeReply(raw_text) ==
    LET parsed == json_loads(StripFences(raw_text)) IN
    IF parsed.exc # "" THEN Ok(ParseFailure)
    ELSE Normalize(parsed.val)

----------------------------------------------------------------------------
(* The outcome of the inference POST, lines 338-418. *)

\* The clauses without the last one, except Exception.
Mutant_PostHandlers == <<"SSLError", "Timeout", "ConnectionError", "RequestException">>

\* The except clauses of lines 394-414, in order.
PostHandlers == <<"SSLError", "Timeout", "ConnectionError", "RequestException", "Exception">>

\* The first clause of handlers that catches cls; 0 when none does.
FirstHandler(handlers, cls) ==
    IF \E i \in DOMAIN handlers : issubclass(cls, handlers[i])
    THEN CHOOSE i \in DOMAIN handlers :
            /\ issubclass(cls, handlers[i])
            /\ \A j \in 1..(i-1) : ~issubclass(cls, handlers[j])
    ELSE 0

ErrorResult(error, details) ==
    Dict(<< <<"error", Str(error)>>, <<"details", Str(details)>> >>)

\* The result each except clause returns.
PostFailure(handler) ==
    CASE handler = "SSLError" ->
            ErrorResult(<<"SSL verification failed">>, <<"Could not verify API server certificate">>)
      [] handler = "Timeout" ->
            ErrorResult(<<"Request timeout">>, <<"Request timed out after ", "30", " seconds">>)
      [] handler = "ConnectionError" ->
            ErrorResult(<<"Connection failed">>, <<"Could not connect to API server">>)
      [] handler = "RequestException" ->
            ErrorResult(<<"API request failed">>, <<"Network error occurred">>)
      [] OTHER ->
            ErrorResult(<<"Unexpected error">>, <<"An unexpected error occurred while processing the request">>)

\* The server-error test written > 500.
Mutant_StatusDetails(status_code) ==
    IF status_code = 401 THEN "Invalid API key"
    ELSE IF status_code = 403 THEN "API access forbidden"
    ELSE IF status_code = 429 THEN "Rate limit exceeded"
    ELSE IF status_code > 500 THEN "API server error"
    ELSE "API request failed"

\* Lines 349-357.
StatusDetails(status_code) ==
    IF status_code = 401 THEN "Invalid API key"
    ELSE IF status_code = 403 THEN "API access forbidden"
    ELSE IF status_code = 429 THEN "Rate limit exceeded"
    ELSE IF status_code >= 500 THEN "API server error"
    ELSE "API request failed"

\* Lines 347-393 on a response that arrived: r.status_code, and r.body, which is
\* either no JSON, or JSON without candidates[0].content.parts[0].text, or JSON
\* whose text is r.body.text.
OnResponse(r) ==
    IF r.status_code # 200
    THEN Ok(ErrorResult(<<"API request failed with status code ", ToString(r.status_code) >>,
                        <<StatusDetails(r.status_code)>>))
    ELSE CASE r.body.shape = "not_json" -> Raise("RequestsJSONDecodeError", <<"Expecting value">>)
           [] r.body.shape = "no_candidates" -> Raise("KeyError", <<"candidates">>)
           [] r.body.shape = "empty_candidates" -> Raise("IndexError", <<"list index out of range">>)
           [] r.body.shape = "text_not_str" -> Raise("AttributeError", <<"object has no attribute replace">>)
           [] OTHER -> NormalizeReply(r.body.text)

\* Lines 338-418: what the call returns (Ok) or lets out (Raise) when the POST
\* ended as r: r.exc is the exception requests.post raised, "" when it returned.
PostOutcome(r) ==
    LET inner == IF r.exc # "" THEN Raise(r.exc, <<>>) ELSE OnResponse(r)
        h == FirstHandler(PostHandlers, inner.exc)
    IN  IF inner.exc = "" THEN inner
        ELSE IF h = 0 THEN inner
        ELSE Ok(PostFailure(PostHandlers[h]))

----------------------------------------------------------------------------
(* GeoSpy.encode_image_to_base64, the remote branch (lines 127-164). *)

\* The except clauses of lines 155-163, in order.
GetHandlers == <<"SSLError", "ConnectionError", "HTTPError", "Timeout", "RequestException">>

\* The ValueError each clause raises; text is str(e) of the exception caught.
GetFailure(handler, text) ==
    CASE handler = "SSLError" -> <<"SSL verification failed: ">> \o text
      [] handler = "ConnectionError" -> <<"Failed to connect to URL. Please check your internet connection.">>
      [] handler = "HTTPError" -> <<"HTTP error when downloading image: ">> \o text
      [] handler = "Timeout" -> <<"Request timed out when downloading image from URL">>
      [] OTHER -> <<"Failed to download image from URL: ">> \o text

\* An exception raised inside the try of line 127, as it leaves the method.
LeaveGet(e) ==
    LET h == FirstHandler(GetHandlers, e.exc) IN
    IF h = 0 THEN e ELSE Raise("ValueError", GetFailure(GetHandlers[h], e.msg))

\* The same without response.raise_for_status().
Mutant_OnGetHeaders(r) ==
    IF r.exc # "" THEN LeaveGet(Raise(r.exc, <<"(", r.exc, ")">>))
    ELSE IF r.length.kind = "junk"
    THEN LeaveGet(Raise("ValueError", <<"invalid literal for int() with base 10">>))
    ELSE IF r.length.kind = "num" /\ r.length.n > max_file_size
    THEN LeaveGet(Raise("ValueError", <<"Image too large: ", ToString(r.length.n), " bytes (max: ", ToString(max_file_size), " bytes)">>))
    ELSE Ok(<<>>)

\* Lines 132-144 on the outcome r of requests.get: an exception, or a status
\* line and a Content-Length header (absent, empty, a number r.length.n, or junk).
OnGetHeaders(r) ==
    IF r.exc # "" THEN LeaveGet(Raise(r.exc, <<"(", r.exc, ")">>))
    ELSE IF r.status_code >= 400 /\ r.status_code < 600
    THEN LeaveGet(Raise("HTTPError", <<ToString(r.status_code), " Error for url">>))
    ELSE IF r.length.kind = "junk"
    THEN LeaveGet(Raise("ValueError", <<"invalid literal for int() with base 10">>))
    ELSE IF r.length.kind = "num" /\ r.length.n > max_file_size
    THEN LeaveGet(Raise("ValueError", <<"Image too large: ", ToString(r.length.n), " bytes (max: ", ToString(max_file_size), " bytes)">>))
    ELSE Ok(<<>>)

\* The size test made on the buffer alone, before the chunk is added.
Mutant_OnChunk(buffer, chunk) ==
    IF Len(buffer) > max_file_size
    THEN Raise("ValueError", <<"Image too large (max: ", ToString(max_file_size), " bytes)">>)
    ELSE Ok(buffer \o chunk)

\* Lines 149-151 on one chunk: the buffer after it, or the too-large error.
OnChunk(buffer, chunk) ==
    IF Len(buffer) + Len(chunk) > max_file_size
    THEN LeaveGet(Raise("ValueError", <<"Image too large (max: ", ToString(max_file_size), " bytes)">>))
    ELSE Ok(buffer \o chunk)

----------------------------------------------------------------------------
(* locate_with_gemini, lines 216-230: the failure of the image acquisition. *)

\* The class the except clause of line 223 names.
AcquireCatch == "Exception"

AcquireFailure(e) ==
    LET error_msg ==
            IF "No such file or directory" \in Range(e.msg) THEN <<"Image file not found">>
            ELSE IF "Permission denied" \in Range(e.msg) THEN <<"Permission denied accessing image file">>
            ELSE e.msg
    IN  Dict(<< <<"error", Str(<<"Failed to process image: ">> \o error_msg)>> >>)

\* Lines 233-295, the fixed part of the prompt, and line 305, its last sentence.
Instructions == "You are a professional geolocation expert. (...)"
Reminder == "\n\nRemember: Your response must be a valid JSON object only. No additional text or formatting."

\* Lines 233-305.
prompt_text(context, guess) ==
    <<Instructions>>
    \o (IF Truthy(context)
        THEN <<"\n\nAdditional context provided by the user:\n">> \o context.s ELSE <<>>)
    \o (IF Truthy(guess)
        THEN <<"\n\nUser suggests this might be in: ">> \o guess.s ELSE <<>>)
    \o <<Reminder>>

\* What the call returns or lets out when the acquisition raised e.
AcquireOutcome(e) ==
    IF issubclass(e.exc, AcquireCatch) THEN Ok(AcquireFailure(e)) ELSE e

----------------------------------------------------------------------------
(* The state machine. *)

NoResult == <<"none", <<>>>>
NoRequest == [text |-> <<>>, mime_type |-> "", data |-> <<>>]
NoGet == [open |-> FALSE, exc |-> "", status_code |-> 0,
          length |-> [kind |-> "absent", n |-> 0], sent |-> <<>>, chunks |-> 0]
NoReply == [exc |-> "", status_code |-> 0, body |-> [shape |-> "none", text |-> <<>>]]
NoFile == [exists |-> FALSE, isfile |-> FALSE, size |-> 0, open |-> "ok", read_size |-> 0, byte |-> 0]

\* The callers that share one GeoSpy object, and a caller that is not in _rate_limit.
Callers == 1..MaxCallers
Outside == [at |-> "out", seen |-> 0, wake |-> 0]

\* The states after GeoSpy(api_key) with GEMINI_API_KEY = env in the environment.
InitWith(ApiKeys, Envs) ==
    /\ \E api_key \in ApiKeys, env \in Envs :
          ctor = [api_key |-> api_key, env |-> env, outcome |-> GeoSpy__init__(api_key, env)]
    /\ now = StartTime
    /\ last_request_time = 0
    /\ pc = "idle"
    /\ image_path = PyNone
    /\ context_info = PyNone
    /\ location_guess = PyNone
    /\ fs = NoFile
    /\ get = NoGet
    /\ content = <<>>
    /\ request_body = NoRequest
    /\ reply = NoReply
    /\ result = NoResult
    /\ escaped = ""
    /\ gets = <<>>
    /\ posts = <<>>
    /\ threads = [t \in Callers |-> Outside]
    /\ passes = <<>>
    /\ calls = 0

\* The call returns o.val, or the exception o.exc leaves it.
Return(o) ==
    /\ pc' = IF o.exc = "" THEN "returned" ELSE "raised"
    /\ result' = IF o.exc = "" THEN o.val ELSE NoResult
    /\ escaped' = o.exc

\* Lines 232-345: the prompt and the request body are built and the POST is sent.
Dispatch(image_base64) ==
    /\ request_body' = [text |-> prompt_text(context_info, location_guess),
                        mime_type |-> _detect_mime_type(image_path.s), data |-> image_base64]
    /\ posts' = Append(posts, now)
    /\ pc' = "post"
    /\ UNCHANGED <<result, escaped>>

\* locate() is called with one of Inputs (an image_path and what the file system
\* holds there): line 217, _rate_limit (lines 97-106), runs first.
Locate(Inputs, maxCalls) ==
    /\ pc \in {"idle", "returned", "raised"}
    /\ ctor.outcome.exc = ""
    /\ calls < maxCalls
    /\ \E in \in Inputs, late \in 0..MaxOversleep :
          LET time_since_last_request == now - last_request_time
              sleep_time == min_request_interval - time_since_last_request
          IN  /\ image_path' = in.path
              /\ context_info' = in.context_info
              /\ location_guess' = in.location_guess
              /\ fs' = in.file
              /\ IF time_since_last_request < min_request_interval
                 THEN now' = now + sleep_time + late
                 ELSE now' = now /\ late = 0
              /\ last_request_time' = now'
    /\ pc' = "encode"
    /\ calls' = calls + 1
    /\ get' = NoGet
    /\ content' = <<>>
    /\ request_body' = NoRequest
    /\ reply' = NoReply
    /\ result' = NoResult
    /\ escaped' = ""
    /\ UNCHANGED <<threads, passes, ctor, gets, posts>>

\* Lines 221-222 up to the first wait for the network: the path is validated;
\* a remote image is requested, a local one is read and the POST is sent.
Encode ==
    /\ pc = "encode"
    /\ LET validated == _validate_image_path(image_path, fs) IN
       IF validated.exc # ""
       THEN /\ Return(AcquireOutcome(validated))
            /\ UNCHANGED <<get, gets, request_body, posts>>
       ELSE IF IsUrl(validated.val)
       THEN /\ gets' = Append(gets, ConnectHost(validated.val))
            /\ get' = [NoGet EXCEPT !.open = TRUE]
            /\ pc' = "get"
            /\ UNCHANGED <<result, escaped, request_body, posts>>
       ELSE LET read == ReadLocal(validated.val, fs) IN
            IF read.exc # ""
            THEN /\ Return(AcquireOutcome(read))
                 /\ UNCHANGED <<get, gets, request_body, posts>>
            ELSE /\ Dispatch(read.val)
                 /\ UNCHANGED <<get, gets>>
    /\ UNCHANGED <<threads, passes, ctor, now, last_request_time, image_path, context_info, location_guess,
                   fs, content, reply, calls>>

\* requests.get ends as one of Responses: lines 132-144.
GetResponse(Responses) ==
    /\ pc = "get"
    /\ \E r \in Responses :
          LET h == OnGetHeaders(r) IN
          IF h.exc # ""
          THEN /\ Return(AcquireOutcome(h))
               /\ get' = [get EXCEPT !.exc = r.exc, !.status_code = r.status_code,
                                   !.length = r.length, !.open = FALSE]
          ELSE /\ get' = [get EXCEPT !.status_code = r.status_code, !.length = r.length]
               /\ pc' = "stream"
               /\ UNCHANGED <<result, escaped>>
    /\ UNCHANGED <<threads, passes, ctor, now, last_request_time, image_path, context_info, location_guess,
                   fs, content,
                   request_body, reply, gets, posts, calls>>

\* iter_content delivers the next chunk: lines 148-151.
ReadChunk(ByteValues) ==
    /\ pc = "stream"
    /\ get.chunks < MaxChunks
    /\ \E n \in 1..MaxChunk, b \in ByteValues :
          LET chunk == Bytes(n, b)
              appended == OnChunk(content, chunk)
          IN  IF appended.exc # ""
              THEN /\ Return(AcquireOutcome(appended))
                   /\ get' = [get EXCEPT !.sent = @ \o chunk, !.chunks = @ + 1, !.open = FALSE]
                   /\ content' = content
              ELSE /\ content' = appended.val
                   /\ get' = [get EXCEPT !.sent = @ \o chunk, !.chunks = @ + 1]
                   /\ UNCHANGED <<pc, result, escaped>>
    /\ UNCHANGED <<threads, passes, ctor, now, last_request_time, image_path, context_info, location_guess,
                   fs,
                   request_body, reply, gets, posts, calls>>

\* The connection fails while the body is read: iter_content raises.
StreamBreaks(Errors) ==
    /\ pc = "stream"
    /\ \E cls \in Errors :
          /\ Return(AcquireOutcome(LeaveGet(Raise(cls, <<"(", cls, ")">>))))
          /\ get' = [get EXCEPT !.exc = cls, !.open = FALSE]
    /\ UNCHANGED <<threads, passes, ctor, now, last_request_time, image_path, context_info, location_guess,
                   fs, content,
                   request_body, reply, gets, posts, calls>>

\* The body ends: line 153, then the POST is sent.
EndOfBody ==
    /\ pc = "stream"
    /\ Dispatch(b64encode(content))
    /\ get' = [get EXCEPT !.open = FALSE]
    /\ UNCHANGED <<threads, passes, ctor, now, last_request_time, image_path, context_info, location_guess,
                   fs, content,
                   reply, gets, calls>>

\* requests.post ends as one of Replies: lines 347-418.
PostResponse(Replies) ==
    /\ pc = "post"
    /\ \E r \in Replies :
          /\ reply' = r
          /\ Return(PostOutcome(r))
    /\ UNCHANGED <<threads, passes, ctor, now, last_request_time, image_path, context_info, location_guess,
                   fs, get, content,
                   request_body, gets, posts, calls>>

\* Time passes.
Tick(until) ==
    /\ now < until
    /\ now' = now + 1
    /\ UNCHANGED <<threads, passes, ctor, last_request_time, pc, image_path, context_info, location_guess,
                   fs, get, content,
                   request_body, reply, result, escaped, gets, posts, calls>>


\* A caller t enters _rate_limit: lines 99-100 read the clock and
\* self.last_request_time; line 102 decides whether to sleep, line 103 how long.
RateLimitRead(t) ==
    /\ ctor.outcome.exc = ""
    /\ threads[t].at = "out"
    /\ Len(SelectSeq(passes, LAMBDA p : p.caller = t)) < MaxCalls
    /\ LET current_time == now
           time_since_last_request == current_time - last_request_time
           sleep_time == min_request_interval - time_since_last_request
       IN  threads' = [threads EXCEPT ![t] =
                IF time_since_last_request < min_request_interval
                THEN [at |-> "sleep", seen |-> last_request_time, wake |-> now + sleep_time]
                ELSE [at |-> "write", seen |-> last_request_time, wake |-> now]]
    /\ UNCHANGED <<passes, ctor, now, last_request_time, pc, image_path, context_info,
                   location_guess, fs, get, content, request_body, reply, result,
                   escaped, gets, posts, calls>>

\* time.sleep(sleep_time) of line 104 returns, no sooner than asked.
RateLimitWake(t) ==
    /\ threads[t].at = "sleep"
    /\ now >= threads[t].wake
    /\ threads' = [threads EXCEPT ![t].at = "write"]
    /\ UNCHANGED <<passes, ctor, now, last_request_time, pc, image_path, context_info,
                   location_guess, fs, get, content, request_body, reply, result,
                   escaped, gets, posts, calls>>

\* Line 106: self.last_request_time = time.time(); the caller leaves the throttle.
RateLimitWrite(t) ==
    /\ threads[t].at = "write"
    /\ last_request_time' = now
    /\ passes' = Append(passes, [caller |-> t, seen |-> threads[t].seen, left |-> now])
    /\ threads' = [threads EXCEPT ![t] = Outside]
    /\ UNCHANGED <<ctor, now, pc, image_path, context_info,
                   location_guess, fs, get, content, request_body, reply, result,
                   escaped, gets, posts, calls>>

----------------------------------------------------------------------------
(* The inputs of the model: image references, files, and what the image host
   and the inference endpoint may answer. *)

H_LocalHost == <<"L","o","c","a","l","H","o","s","t">>
H_10_0_0_1 == <<"1","0",".","0",".","0",".","1">>
H_172_16_0_1 == <<"1","7","2",".","1","6",".","0",".","1">>
H_172_31_255_1 == <<"1","7","2",".","3","1",".","2","5","5",".","1">>
H_192_168_1_1 == <<"1","9","2",".","1","6","8",".","1",".","1">>
H_172_32_0_1 == <<"1","7","2",".","3","2",".","0",".","1">>
H_11_0_0_1 == <<"1","1",".","0",".","0",".","1">>
H_e_com == <<"e",".","c","o","m">>

Hosts ==
    { S_localhost, H_LocalHost, S_127_0_0_1, S_0_0_0_0, H_10_0_0_1, H_172_16_0_1,
      H_172_31_255_1, H_192_168_1_1, H_172_32_0_1, H_11_0_0_1, H_e_com }

Schemes == { S_http, S_https, <<"H","T","T","P","S">> }
UserInfos == { <<>>, <<"u">>, <<"u",":","p">> }
Ports == { <<>>, <<":","8","0">> }
UrlPaths == { <<>>, <<"/","x",".","j","p","g">>, <<"/","x",".","j","p","g","?","q","=","1">> }

Url(scheme, userinfo, host, port, path) ==
    scheme \o <<":", "/", "/">>
    \o (IF userinfo = <<>> THEN <<>> ELSE userinfo \o <<"@">>)
    \o host \o port \o path

Urls ==
    { Url(sc, ui, h, po, pa) : sc \in Schemes, ui \in UserInfos, h \in Hosts,
                               po \in Ports, pa \in UrlPaths }

P_a_x_jpg == <<"/","a","/","x",".","j","p","g">>
P_x_PNG == <<"x",".","P","N","G">>
P_a_x_txt == <<"/","a","/","x",".","t","x","t">>
P_a_noext == <<"/","a","/","n","o","e","x","t">>
P_a_dotjpg == <<"/","a","/",".","j","p","g">>
P_ftp == <<"f","t","p",":","/","/","e",".","c","o","m","/","x",".","j","p","g">>
P_no_domain == <<"h","t","t","p",":","/","/","/","x",".","j","p","g">>
P_bad_ipv6 == <<"h","t","t","p",":","/","/","[",":",":","1","/","x",".","j","p","g">>

File(size, open, read_size, byte) ==
    [exists |-> TRUE, isfile |-> TRUE, size |-> size, open |-> open,
     read_size |-> read_size, byte |-> byte]
Missing == NoFile
Directory == [NoFile EXCEPT !.exists = TRUE]

Input(path, file) ==
    [path |-> path, context_info |-> PyNone, location_guess |-> PyNone, file |-> file]
\* The same call with the two optional arguments given.
WithHints(in, context, guess) == [in EXCEPT !.context_info = context, !.location_guess = guess]
Hint == PyStr(<<"P", "a", "r", "i", "s", "?">>)

\* A small image at an allow-listed path: the call reaches the POST.
GoodInput == Input(PyStr(P_a_x_jpg), File(2, "ok", 2, 255))

\* Every kind of local reference and of file behind it.
LocalFiles ==
    { Missing, Directory }
    \cup { File(n, "ok", n, 255) : n \in 0..(max_file_size + 1) }
    \cup { File(max_file_size, "ok", max_file_size + 1, 255) }
    \cup { File(1, o, 1, 0) : o \in {"PermissionError", "FileNotFoundError", "OSError"} }

LocalInputs ==
    { Input(PyStr(p), f) :
        p \in {P_a_x_jpg, P_x_PNG, P_a_x_txt, P_a_noext, P_a_dotjpg, P_ftp},
        f \in LocalFiles }
    \cup { Input(PyNone, NoFile), Input(PyInt, NoFile), Input(PyStr(<<>>), NoFile),
           Input(PyStr(P_no_domain), NoFile), Input(PyStr(P_bad_ipv6), NoFile) }

UrlInputs == { Input(PyStr(u), NoFile) : u \in Urls }

\* References with a scheme in capitals, and a file of the working directory
\* that the same string names when it is read as a relative path.
ShadowedInputs ==
    { Input(PyStr(Url(<<"H","T","T","P">>, <<>>, H_e_com, <<>>, pa)), f) :
        pa \in { <<"/","x",".","j","p","g">>, <<"/","x",".","t","x","t">> },
        f \in { File(2, "ok", 2, 255), Directory,
                File(max_file_size + 1, "ok", max_file_size + 1, 255) } }

\* One reference of each kind.
SomeInputs ==
    { GoodInput,
      WithHints(GoodInput, Hint, PyNone), WithHints(GoodInput, PyStr(<<>>), Hint),
      WithHints(Input(PyStr(P_a_x_jpg), Missing), Hint, Hint),
      Input(PyStr(P_x_PNG), File(max_file_size, "ok", max_file_size, 0)),
      Input(PyStr(P_a_x_jpg), Missing),
      Input(PyStr(P_a_x_jpg), Directory),
      Input(PyStr(P_a_x_txt), File(1, "ok", 1, 0)),
      Input(PyStr(P_a_x_jpg), File(max_file_size + 1, "ok", max_file_size + 1, 0)),
      Input(PyStr(P_a_x_jpg), File(1, "PermissionError", 1, 0)),
      Input(PyStr(P_a_x_jpg), File(1, "FileNotFoundError", 1, 0)),
      Input(PyNone, NoFile), Input(PyInt, NoFile), Input(PyStr(<<>>), NoFile),
      Input(PyStr(P_no_domain), NoFile), Input(PyStr(P_bad_ipv6), NoFile),
      Input(PyStr(Url(S_http, <<>>, H_e_com, <<>>, <<"/","x",".","j","p","g">>)), NoFile),
      Input(PyStr(Url(S_https, <<>>, S_localhost, <<>>, <<"/","x",".","j","p","g">>)), NoFile),
      Input(PyStr(Url(<<"H","T","T","P","S">>, <<>>, H_e_com, <<>>, <<"/","x",".","j","p","g">>)), NoFile) }

Length(kind, n) == [kind |-> kind, n |-> n]
Response(status_code, length) == [exc |-> "", status_code |-> status_code, length |-> length]
Failed(cls) == [exc |-> cls, status_code |-> 0, length |-> Length("absent", 0)]

GetErrors == {"SSLError", "ConnectionError", "ConnectTimeout", "ReadTimeout", "Timeout", "RequestException"}
Lengths ==
    { Length("absent", 0), Length("empty", 0), Length("junk", 0) }
    \cup { Length("num", n) : n \in 0..(max_file_size + 1) }

Responses ==
    { Failed(cls) : cls \in GetErrors }
    \cup { Response(st, Length("absent", 0)) : st \in {204, 404, 500} }
    \cup { Response(200, l) : l \in Lengths }

SomeResponses ==
    { Failed("SSLError"), Failed("ConnectTimeout"), Response(404, Length("absent", 0)),
      Response(200, Length("absent", 0)), Response(200, Length("junk", 0)) }

StreamErrors == {"ConnectionError", "ReadTimeout", "RequestException"}

----------------------------------------------------------------------------
(* Reply texts of the inference endpoint, written as the service writes them. *)

Quoted(w) == <<"\"", w, "\"">>
Member(k, v) == Quoted(k) \o <<":", " ">> \o v

RECURSIVE Join(_)
Join(parts) ==
    IF parts = <<>> THEN <<>>
    ELSE IF Len(parts) = 1 THEN parts[1]
    ELSE parts[1] \o <<",", " ">> \o Join(Tail(parts))

ObjText(members) == <<"{">> \o Join(members) \o <<"}">>
ArrText(items) == <<"[">> \o Join(items) \o <<"]">>

Places ==
    << [country |-> "France", state |-> "IDF", city |-> "Paris", confidence |-> "High",
        latitude |-> "48.85", longitude |-> "2.35"],
       [country |-> "USA", state |-> "NY", city |-> "NewYork", confidence |-> "Medium",
        latitude |-> "40.71", longitude |-> "-74.0"],
       [country |-> "UK", state |-> "England", city |-> "London", confidence |-> "Low",
        latitude |-> "51.5", longitude |-> "-0.12"] >>
Place(i) == Places[((i - 1) % Len(Places)) + 1]

CoordinatesText(i) ==
    ObjText(<< Member("latitude", <<Place(i).latitude>>),
               Member("longitude", <<Place(i).longitude>>) >>)

\* One location, in the format the prompt asks for (lines 244-259).
LocationText(i) ==
    ObjText(<< Member("country", Quoted(Place(i).country)),
               Member("state", Quoted(Place(i).state)),
               Member("city", Quoted(Place(i).city)),
               Member("confidence", Quoted(Place(i).confidence)),
               Member("coordinates", CoordinatesText(i)),
               Member("explanation", Quoted("because")) >>)

\* The reply the prompt asks for (lines 235-261), with n locations.
CanonicalText(n) ==
    ObjText(<< Member("interpretation", Quoted("x")),
               Member("locations", ArrText([i \in 1..n |-> LocationText(i)])) >>)

\* A flat reply: any choice of these top-level members.
FlatKeys == <<"interpretation", "city", "country", "confidence", "coordinates", "locations">>

FlatMembers(k) ==
    CASE k = "interpretation" -> << Member(k, Quoted("x")) >>
      [] k = "city" -> << Member(k, Quoted(Place(1).city)) >>
      [] k = "country" -> << Member(k, Quoted(Place(1).country)),
                             Member("state", Quoted(Place(1).state)),
                             Member("explanation", Quoted("because")) >>
      [] k = "confidence" -> << Member(k, Quoted(Place(1).confidence)) >>
      [] k = "coordinates" -> << Member(k, CoordinatesText(1)) >>
      [] OTHER -> << Member("locations", ArrText(<<LocationText(2)>>)) >>

RECURSIVE FlatMemberList(_, _)
FlatMemberList(keys, i) ==
    IF i > Len(FlatKeys) THEN <<>>
    ELSE (IF FlatKeys[i] \in keys THEN FlatMembers(FlatKeys[i]) ELSE <<>>)
         \o FlatMemberList(keys, i + 1)

FlatText(keys) == ObjText(FlatMemberList(keys, 1))

\* Valid JSON of other shapes.
OddTexts ==
    { <<"0">>, <<"null">>, <<"true">>, Quoted("city"), Quoted("abc"),
      ArrText(<<>>), ArrText(<<Quoted("city")>>), ArrText(<<Quoted("city"), Quoted("locations")>>),
      ArrText(<<LocationText(1)>>),
      ObjText(<< Member("error", Quoted("boom")) >>),
      ObjText(<< Member("error", Quoted("boom")), Member("interpretation", Quoted("x")),
                 Member("locations", ArrText(<<LocationText(1)>>)) >>),
      ObjText(<< Member("city", Quoted("Paris")), Member("locations", Quoted("none")) >>),
      ObjText(<< Member("city", <<"null">>), Member("confidence", <<"null">>) >>),
      ObjText(<< Member("interpretation", <<"\"", "see", Grave, Grave, Grave, "json", "code", "\"">>),
                 Member("locations", ArrText(<<>>)) >>),
      <<" ", "\n">> \o CanonicalText(1) \o <<"\n">> }

JsonTexts ==
    { CanonicalText(n) : n \in 0..MaxLocations }
    \cup { FlatText(keys) : keys \in SUBSET Range(FlatKeys) }
    \cup OddTexts

\* Text that is not JSON, with or without fences.
NonJsonTexts ==
    { <<>>, <<"I", " ", "cannot", " ", "tell">>, <<"{">>,
      <<"{">> \o Member("city", Quoted("Paris")) \o <<",", "}">>,
      Quoted("a") \o <<" ", "x">>,
      <<"\"", "a", "\n", "b", "\"">>,
      <<"Here", " ", "it", " ", "is", ":", "\n">> \o CanonicalText(1),
      FenceJson \o <<"\n">> \o Fence,
      FenceJson \o <<"\n", "{">> \o Fence }

\* J between a leading json fence and a trailing fence, with white space around.
Fenced(J, style) ==
    CASE style = 1 -> FenceJson \o <<"\n">> \o J \o <<"\n">> \o Fence
      [] style = 2 -> FenceJson \o J \o Fence
      [] OTHER -> <<" ", "\n">> \o FenceJson \o <<" ", "\n">> \o J \o <<"\n", " ">> \o Fence \o <<"\n">>
FenceStyles == {1, 2, 3}

ReplyTexts ==
    JsonTexts \cup NonJsonTexts \cup { Fenced(J, st) : J \in JsonTexts, st \in FenceStyles }

Body(shape, text) == [shape |-> shape, text |-> text]
Reply(status_code, body) == [exc |-> "", status_code |-> status_code, body |-> body]
NoAnswer(cls) == [exc |-> cls, status_code |-> 0, body |-> Body("none", <<>>)]

PostErrors == {"SSLError", "ConnectionError", "ConnectTimeout", "ReadTimeout", "Timeout", "RequestException"}
OtherShapes == {"not_json", "no_candidates", "empty_candidates", "text_not_str"}
ErrorStatuses == {201, 204, 301, 400, 401, 403, 404, 429, 499, 500, 503}
ErrorBodies ==
    { Body("not_json", <<"<html>", "secret", "</html>">>),
      Body("text", <<"quota", " ", "exceeded", " ", "for", " ", "key">>),
      Body("text", CanonicalText(1)),
      Body("no_candidates", <<>>) }

Replies ==
    { NoAnswer(cls) : cls \in PostErrors }
    \cup { Reply(st, b) : st \in ErrorStatuses, b \in ErrorBodies }
    \cup { Reply(200, Body(sh, <<>>)) : sh \in OtherShapes }
    \cup { Reply(200, Body("text", t)) : t \in ReplyTexts }

SomeReplies ==
    { NoAnswer(cls) : cls \in PostErrors }
    \cup { Reply(st, Body("text", <<"quota">>)) : st \in {401, 404, 500} }
    \cup { Reply(200, Body(sh, <<>>)) : sh \in OtherShapes }
    \cup { Reply(200, Body("text", t)) :
            t \in { CanonicalText(2), Fenced(CanonicalText(1), 1), FlatText({"city"}),
                    <<"0">>, ArrText(<<>>), ArrText(<<Quoted("city")>>), <<"I", " ", "cannot">> } }

----------------------------------------------------------------------------
(* Constructor arguments. *)

K_good == <<"a","Z","9","_","-">>
K_newline == <<"k","9","\n">>
ApiKeys ==
    { PyNone, PyStr(<<>>), PyStr(K_good), PyStr(K_newline), PyStr(<<"a"," ","b">>),
      PyStr(<<"\n">>), PyStr(<<"a","\n","b">>), PyStr(<<"k","\n","\n">>),
      PyStr(<<"k","e","y","!">>) }
Envs == { PyNone, PyStr(<<>>), PyStr(<<"e","n","v","_","1">>), PyStr(<<"e","/","v">>),
          PyStr(<<"\n","e","n","v">>), PyStr(K_newline) }

----------------------------------------------------------------------------
(* Specifications. *)

\* One reference of each kind, every kind of answer, two calls, and the clock.
Init == InitWith({PyStr(K_good)}, {PyNone})
Next ==
    \/ Locate(SomeInputs, MaxCalls)
    \/ Encode
    \/ GetResponse(SomeResponses)
    \/ ReadChunk({255})
    \/ StreamBreaks(StreamErrors)
    \/ EndOfBody
    \/ PostResponse(SomeReplies)
    \/ Tick(MaxTime)
Spec == Init /\ [][Next]_vars


\* The smallest set of inputs that makes every step happen.
BaseInputs == { GoodInput, Input(PyStr(Url(S_http, <<>>, H_e_com, <<>>, <<"/", "x", ".", "j", "p", "g">>)), NoFile) }
BaseResponses == { Response(200, Length("absent", 0)) }
BaseReplies == { Reply(200, Body("text", CanonicalText(1))) }

\* Every constructor argument and environment; one call.
InitCtor == InitWith(ApiKeys, Envs)
NextCtor ==
    \/ Locate(BaseInputs, 1)
    \/ Encode
    \/ GetResponse(BaseResponses)
    \/ ReadChunk({255})
    \/ StreamBreaks(StreamErrors)
    \/ EndOfBody
    \/ PostResponse(BaseReplies)
    \/ Tick(StartTime + 1)
SpecCtor == InitCtor /\ [][NextCtor]_vars

\* Every URL; one call.
NextUrl ==
    \/ Locate(UrlInputs \cup ShadowedInputs \cup BaseInputs, 1)
    \/ Encode
    \/ GetResponse(BaseResponses)
    \/ ReadChunk({255})
    \/ StreamBreaks(StreamErrors)
    \/ EndOfBody
    \/ PostResponse(BaseReplies)
    \/ Tick(StartTime + 1)
SpecUrl == Init /\ [][NextUrl]_vars

\* Every file, every answer of the image host, every body; one call.
NextFetch ==
    \/ Locate(LocalInputs \cup BaseInputs, 1)
    \/ Encode
    \/ GetResponse(Responses)
    \/ ReadChunk({0, 255})
    \/ StreamBreaks(StreamErrors)
    \/ EndOfBody
    \/ PostResponse(BaseReplies)
    \/ Tick(StartTime + 1)
SpecFetch == Init /\ [][NextFetch]_vars

\* Every answer of the inference endpoint; one call.
NextReply ==
    \/ Locate(BaseInputs, 1)
    \/ Encode
    \/ GetResponse(BaseResponses)
    \/ ReadChunk({255})
    \/ StreamBreaks(StreamErrors)
    \/ EndOfBody
    \/ PostResponse(Replies)
    \/ Tick(StartTime + 1)
SpecReply == Init /\ [][NextReply]_vars

\* Callers that share the object and run the throttle at the same time.
NextShared ==
    \/ \E t \in Callers : RateLimitRead(t)
    \/ \E t \in Callers : RateLimitWake(t)
    \/ \E t \in Callers : RateLimitWrite(t)
    \/ Tick(MaxTime)
SpecShared == Init /\ [][NextShared]_vars

----------------------------------------------------------------------------
(* The claims. *)

IsDict(v) == v[1] = "obj"
HasKey(v, k) == IsDict(v) /\ <<k>> \in DOMAIN v[2]
Field(v, k) == v[2][<<k>>]

\* The endpoint answered 200 with a reply text.
GotText == pc = "returned" /\ reply.exc = "" /\ reply.status_code = 200 /\ reply.body.shape = "text"

\* Some stage of the returned call failed: the acquisition (no POST was
\* built), the transport, the status, the shape of the body or the parse.
StageFailed ==
    \/ request_body = NoRequest
    \/ reply.exc # ""
    \/ reply.status_code # 200
    \/ reply.body.shape # "text"
    \/ json_loads(StripFences(reply.body.text)).exc # ""

\* C1: no exception leaves locate(): every call returns a value, and a call in
\* which a stage failed returns a dict with an "error" key.
C1_NoExceptionEscapes ==
    /\ escaped = ""
    /\ pc # "raised"
    /\ pc = "returned" =>
          /\ result # NoResult
          /\ StageFailed => HasKey(result, "error")

\* A call whose reply lacks "candidates" (a KeyError inside) returned a failure.
C1_Witness ==
    /\ pc = "returned"
    /\ reply.status_code = 200
    /\ reply.body.shape = "no_candidates"
    /\ HasKey(result, "error")

\* C2: the inference POST of a call is dispatched no earlier than
\* min_request_interval after the POST of the call before it.
C2_DispatchSpacing ==
    \A i \in 2..Len(posts) : posts[i] - posts[i-1] >= min_request_interval

TooLargeTexts == {"Image too large (max: ", "Image too large: ", "File too large: "}
IsTooLarge(v) ==
    /\ HasKey(v, "error")
    /\ Len(Field(v, "error")[2]) >= 2
    /\ Field(v, "error")[2][2] \in TooLargeTexts

\* The call is about a local file that passes every check but the size.
LocalOtherwiseValid ==
    /\ image_path.ty = "str"
    /\ image_path.s # <<>>
    /\ urlparse(image_path.s).exc = ""
    /\ urlparse(image_path.s).val.scheme \notin {S_http, S_https}
    /\ fs.exists /\ fs.isfile /\ fs.open = "ok"
    /\ lower(suffix(image_path.s)) \in allowed_extensions

\* C3: the download buffer never holds more than max_file_size bytes; a body
\* or a file larger than max_file_size ends the call in the too-large failure
\* with no base64 data built, whatever Content-Length said; the too-large
\* failure is given only for a body, a file or a Content-Length above
\* max_file_size, so that a body of exactly max_file_size bytes is accepted.
C3_SizeCeiling ==
    /\ Len(content) <= max_file_size
    /\ Len(get.sent) > max_file_size =>
          /\ pc = "returned"
          /\ IsTooLarge(result)
          /\ request_body = NoRequest
    /\ (pc \in {"post", "returned"} /\ LocalOtherwiseValid
            /\ (fs.size > max_file_size \/ fs.read_size > max_file_size)) =>
          /\ pc = "returned"
          /\ IsTooLarge(result)
          /\ request_body = NoRequest
    /\ (pc = "returned" /\ IsTooLarge(result)) =>
          \/ Len(get.sent) > max_file_size
          \/ get.length.kind = "num" /\ get.length.n > max_file_size
          \/ fs.size > max_file_size
          \/ fs.read_size > max_file_size
    /\ (pc = "post" /\ gets # <<>>) =>
          /\ content = get.sent
          /\ request_body.data = b64encode(get.sent)

\* A body larger than its Content-Length and than max_file_size was refused.
C3_Witness ==
    /\ pc = "returned"
    /\ get.length.kind = "num"
    /\ get.length.n < Len(get.sent)
    /\ Len(get.sent) > max_file_size
    /\ IsTooLarge(result)

\* A body of exactly max_file_size bytes was accepted and encoded whole.
C3_WitnessExact ==
    /\ pc = "post"
    /\ Len(get.sent) = max_file_size
    /\ request_body.data = b64encode(get.sent)

\* The hosts of the model that are localhost, 127.0.0.1, 0.0.0.0 or a literal
\* address in 10.0.0.0/8, 172.16.0.0/12 or 192.168.0.0/16.
BlockedHosts ==
    { S_localhost, S_127_0_0_1, S_0_0_0_0, H_10_0_0_1, H_172_16_0_1,
      H_172_31_255_1, H_192_168_1_1 }

\* C4: no image GET is ever sent to a blocked host.
C4_NoGetToBlockedHost ==
    \A i \in DOMAIN gets : gets[i] \notin BlockedHosts

\* The coarse category of a status, as the specification lists it.
Category(s) ==
    CASE s = 401 -> "Invalid API key"
      [] s = 403 -> "API access forbidden"
      [] s = 429 -> "Rate limit exceeded"
      [] s >= 500 -> "API server error"
      [] OTHER -> "API request failed"

\* C5: for a status other than 200 the call returns the failure made of the
\* status code and its coarse category, and of nothing else: it is the same
\* for every body.
C5_StatusMapping ==
    (pc = "returned" /\ request_body # NoRequest /\ reply.exc = "" /\ reply.status_code # 200) =>
        result = Dict(<<
            <<"error", Str(<<"API request failed with status code ", ToString(reply.status_code)>>)>>,
            <<"details", Str(<<Category(reply.status_code)>>)>> >>)

\* A 429 whose body talks about quota was answered with the category alone.
C5_Witness ==
    /\ pc = "returned"
    /\ reply.status_code = 429
    /\ "quota" \in Range(reply.body.text)
    /\ Field(result, "details") = Str(<<"Rate limit exceeded">>)

\* The reply text is not JSON once its fences are stripped.
GotNonJson == GotText /\ json_loads(StripFences(reply.body.text)).exc # ""

Default(f, k, d) == IF <<k>> \in DOMAIN f THEN f[<<k>>] ELSE d
Canonical(f) ==
    Dict(<<
        <<"interpretation", Default(f, "interpretation", Str(<<>>))>>,
        <<"locations", Arr(<< Dict(<<
            <<"country", Default(f, "country", Str(<<>>))>>,
            <<"state", Default(f, "state", Str(<<>>))>>,
            <<"city", Default(f, "city", Str(<<>>))>>,
            <<"explanation", Default(f, "explanation", Str(<<>>))>>,
            <<"confidence", Default(f, "confidence", Str(<<"Medium">>))>>,
            <<"coordinates", Default(f, "coordinates",
                Dict(<< <<"latitude", Num("0")>>, <<"longitude", Num("0")>> >>))>> >>) >>)>> >>)

IsFlat(v) == HasKey(v, "city") /\ ~(HasKey(v, "locations") /\ Field(v, "locations")[1] = "arr")

\* C7, as claimed: a reply text that is valid JSON is returned wrapped when it
\* is a flat object, and as parsed in every other case.
C7_WrapOrPassThrough ==
    (GotText /\ json_loads(reply.body.text).exc = "") =>
        LET v == json_loads(reply.body.text).val IN
        result = IF IsFlat(v) THEN Canonical(v[2]) ELSE v

UnexpectedError ==
    Dict(<< <<"error", Str(<<"Unexpected error">>)>>,
            <<"details", Str(<<"An unexpected error occurred while processing the request">>)>> >>)

\* "city" is in v and "locations" is not, for a list or a str.
NamesCityOnly(v) ==
    IF v[1] = "arr"
    THEN (\E i \in DOMAIN v[2] : v[2][i] = Str(<<"city">>))
         /\ ~(\E i \in DOMAIN v[2] : v[2][i] = Str(<<"locations">>))
    ELSE "city" \in Range(v[2]) /\ "locations" \notin Range(v[2])

\* The locations of a canonical reply of n places, as values.
ExpectedLocations(n) ==
    [i \in 1..n |->
        Dict(<< <<"country", Str(<<Place(i).country>>)>>,
                <<"state", Str(<<Place(i).state>>)>>,
                <<"city", Str(<<Place(i).city>>)>>,
                <<"confidence", Str(<<Place(i).confidence>>)>>,
                <<"coordinates", Dict(<< <<"latitude", Num(Place(i).latitude)>>,
                                         <<"longitude", Num(Place(i).longitude)>> >>)>>,
                <<"explanation", Str(<<"because">>)>> >>)]

\* C7, amended: when the reply text without its fences is valid JSON, an
\* object with a "city" key and no "locations" key is returned wrapped, with
\* the defaults; a number, true, false or null, and a list or string that
\* names "city" and not "locations", give the "Unexpected error" failure;
\* every other value is returned as parsed, so that a reply of n locations
\* gives these n locations in order, with their coordinates.
C7_WrapOrPassThroughObjects ==
    /\ (GotText /\ json_loads(StripFences(reply.body.text)).exc = "") =>
          LET v == json_loads(StripFences(reply.body.text)).val IN
          result =
            IF v[1] = "obj"
            THEN (IF HasKey(v, "city") /\ ~HasKey(v, "locations") THEN Canonical(v[2]) ELSE v)
            ELSE IF v[1] \in {"arr", "str"}
            THEN (IF NamesCityOnly(v) THEN UnexpectedError ELSE v)
            ELSE UnexpectedError
    /\ \A n \in 0..MaxLocations :
          (GotText /\ reply.body.text = CanonicalText(n)) =>
              /\ Field(result, "interpretation") = Str(<<"x">>)
              /\ Field(result, "locations") = Arr(ExpectedLocations(n))

\* The specification's example: city, country and interpretation alone.
C7_Witness ==
    /\ GotText
    /\ reply.body.text = FlatText({"city", "country", "interpretation"})
    /\ Len(Field(result, "locations")[2]) = 1
    /\ Field(Field(result, "locations")[2][1], "confidence") = Str(<<"Medium">>)
    /\ Field(Field(result, "locations")[2][1], "coordinates")
          = Dict(<< <<"latitude", Num("0")>>, <<"longitude", Num("0")>> >>)

\* C8: a JSON text between a json fence and a closing fence gives the result
\* that the text alone gives.
C8_FenceInvariance ==
    GotText =>
        \A J \in JsonTexts, st \in FenceStyles :
            reply.body.text = Fenced(J, st) =>
                Ok(result) = PostOutcome(Reply(200, Body("text", J)))

C8_Witness ==
    /\ GotText
    /\ reply.body.text = Fenced(CanonicalText(2), 1)
    /\ Field(result, "locations") = Arr(ExpectedLocations(2))

IsFailureVariant(v) ==
    HasKey(v, "error") /\ ~HasKey(v, "interpretation") /\ ~HasKey(v, "locations")
IsSuccessVariant(v) ==
    /\ HasKey(v, "interpretation") /\ HasKey(v, "locations") /\ ~HasKey(v, "error")
    /\ Field(v, "locations")[1] = "arr"

\* C9: a returned value is a failure or a success, never both, never neither.
C9_ExactlyOneVariant ==
    pc = "returned" => (IsFailureVariant(result) # IsSuccessVariant(result))

\* C10: construction succeeds exactly when the effective credential (the
\* argument when given and not empty, else the environment variable) is a
\* non-empty string of characters of [A-Za-z0-9_-].
C10_ConstructionIffValidKey ==
    LET key == IF ctor.api_key.ty = "str" /\ ctor.api_key.s # <<>> THEN ctor.api_key ELSE ctor.env
    IN  (ctor.outcome.exc = "") <=>
            /\ key.ty = "str"
            /\ key.s # <<>>
            /\ \A i \in DOMAIN key.s : key.s[i] \in KeyChars

\* The call in progress is about a local reference: a non-empty string that
\* urlparse gives a scheme other than http and https.
IsLocalReference ==
    /\ pc # "idle"
    /\ image_path.ty = "str"
    /\ image_path.s # <<>>
    /\ urlparse(image_path.s).exc = ""
    /\ urlparse(image_path.s).val.scheme \notin {S_http, S_https}

\* C11: the resolution of a local reference raises FileNotFoundError when the
\* absolute path does not exist, else a validation error when it is not a
\* regular file, else a validation error when its lower-cased extension is
\* not allowed, and else returns the absolute path.
C11_LocalResolution ==
    IsLocalReference =>
        LET resolved == _validate_image_path(image_path, fs)
            abs_path == abspath(image_path.s)
        IN  IF ~fs.exists THEN resolved.exc = "FileNotFoundError"
            ELSE IF ~fs.isfile THEN resolved.exc = "ValueError"
            ELSE IF lower(suffix(abs_path)) \notin allowed_extensions
            THEN resolved.exc = "ValueError"
            ELSE resolved = Ok(abs_path)

\* The path p is written somewhere in text.
HoldsPath(text, p) ==
    \E i \in 1..(Len(text) - Len(p) + 1) : SubSeq(text, i, i + Len(p) - 1) = p

\* C12: the error message of a call that failed on a local reference holds
\* neither the path given nor its absolute form.
C12_NoPathInError ==
    (pc = "returned" /\ IsLocalReference /\ HasKey(result, "error")) =>
        /\ ~HoldsPath(Field(result, "error")[2], abspath(image_path.s))
        /\ ~HoldsPath(Field(result, "error")[2], image_path.s)

\* C13: no two passages of the throttle were decided on the same value of
\* last_request_time, and any two passages are min_request_interval apart.
C13_ThrottleAtomic ==
    \A i, j \in DOMAIN passes :
        i < j =>
            /\ passes[i].seen # passes[j].seen
            /\ passes[j].left - passes[i].left >= min_request_interval

\* The transport failure class of an exception of requests: a TLS failure, else
\* a timeout (of the connection or of a read), else a connection failure.
TransportKind(cls) ==
    IF issubclass(cls, "SSLError") THEN "TlsFailed"
    ELSE IF issubclass(cls, "Timeout") THEN "Timeout"
    ELSE IF issubclass(cls, "ConnectionError") THEN "ConnectionFailed"
    ELSE "Other"

\* How each call words each class.
GetWording(kind) ==
    CASE kind = "TlsFailed" -> "SSL verification failed: "
      [] kind = "Timeout" -> "Request timed out when downloading image from URL"
      [] kind = "ConnectionFailed" -> "Failed to connect to URL. Please check your internet connection."
      [] kind = "HttpStatus" -> "HTTP error when downloading image: "
      [] OTHER -> "Failed to download image from URL: "
PostWording(kind) ==
    CASE kind = "TlsFailed" -> "SSL verification failed"
      [] kind = "Timeout" -> "Request timeout"
      [] kind = "ConnectionFailed" -> "Connection failed"
      [] OTHER -> "API request failed"

\* C14: a failed image GET and a failed inference POST are reported by the
\* class of the failure, a timeout of any sort as a timeout, in both calls.
C14_TransportClasses ==
    /\ (pc = "returned" /\ get.exc # "") =>
          Field(result, "error")[2][2] = GetWording(TransportKind(get.exc))
    /\ (pc = "returned" /\ get.exc = "" /\ get.status_code >= 400) =>
          Field(result, "error")[2][2] = GetWording("HttpStatus")
    /\ (pc = "returned" /\ reply.exc # "") =>
          Field(result, "error")[2] = <<PostWording(TransportKind(reply.exc))>>

\* The image of the call in progress was resolved and fetched whole.
Acquired ==
    LET resolved == _validate_image_path(image_path, fs) IN
    /\ resolved.exc = ""
    /\ IF gets # <<>>
       THEN /\ get.exc = ""
            /\ get.status_code \notin 400..599
            /\ ~get.open
            /\ content = get.sent
            /\ request_body.data = b64encode(get.sent)
       ELSE /\ OpenOutcome(fs) = "ok"
            /\ request_body.data = b64encode(Bytes(fs.read_size, fs.byte))

\* C15: one call makes at most one image GET and at most one inference POST;
\* the GET comes before the POST and the POST before the reply; the POST is
\* made only when the image was resolved and fetched, with the prompt and the
\* image in it; a call that failed made no network call of a later stage.
C15_StagesInOrderOnce ==
    /\ Len(gets) <= 1
    /\ Len(posts) <= 1
    /\ pc \in {"encode", "get", "stream"} => posts = <<>>
    /\ pc \in {"encode", "get", "stream", "post"} => reply = NoReply /\ result = NoResult
    /\ pc = "encode" => gets = <<>>
    /\ posts # <<>> =>
          /\ Acquired
          /\ request_body.text = prompt_text(context_info, location_guess)
    /\ (pc = "returned" /\ _validate_image_path(image_path, fs).exc # "") =>
          gets = <<>> /\ posts = <<>>
    /\ (pc = "returned" /\ (get.exc # "" \/ get.status_code \in 400..599)) =>
          posts = <<>> /\ reply = NoReply
    /\ (pc = "returned" /\ request_body = NoRequest) => posts = <<>> /\ reply = NoReply
    /\ posts = <<>> => request_body = NoRequest

\* The download was refused with 404 and the call returned without a POST.
C15_Witness ==
    /\ pc = "returned"
    /\ Len(gets) = 1
    /\ get.status_code = 404
    /\ posts = <<>>
    /\ HasKey(result, "error")

\* C16: calls that failed before their POST was dispatched leave
\* last_request_time as it was: while no POST has been dispatched by the
\* object, it keeps the value the constructor gave it.
C16_FailedCallsLeaveThrottle ==
    (pc = "returned" /\ posts = <<>>) => last_request_time = 0

\* _validate_image_path took the reference of the call for a remote URL and
\* accepted it.
ValidatedAsUrl ==
    /\ image_path.ty = "str"
    /\ image_path.s # <<>>
    /\ urlparse(image_path.s).exc = ""
    /\ urlparse(image_path.s).val.scheme \in {S_http, S_https}
    /\ _validate_image_path(image_path, fs).exc = ""

\* C17: past the validation, a reference validated as a remote URL has been
\* requested over HTTP, and a reference that was not requested over HTTP (it
\* was opened as a local file) has passed the local checks.
C17_OneClassification ==
    (pc \in {"get", "stream", "post", "returned"} /\ _validate_image_path(image_path, fs).exc = "") =>
        /\ ValidatedAsUrl => Len(gets) = 1
        /\ gets = <<>> => ValidateLocal(image_path.s, fs).exc = ""

\* A file with an extension that is not allowed was read and sent.
C17_ShadowedFileSent ==
    /\ pc = "post"
    /\ ValidatedAsUrl
    /\ gets = <<>>
    /\ lower(suffix(image_path.s)) \notin allowed_extensions
    /\ request_body.data = b64encode(Bytes(fs.read_size, fs.byte))

====
